---- MODULE Spec2Model ----
(***************************************************************************)
(* The pre-processing of fun_domain_pytorch.ipynb: swap_rows, swap_cols,   *)
(* greater and maximise_matrix, and the loop that applies maximise_matrix  *)
(* to the matrices of the dataset.                                         *)
(*                                                                         *)
(* A numpy array is an object on a heap: a shape and its entries.  A       *)
(* Python name holds a reference to an object, so that `M = swap_rows(..)` *)
(* rebinds M and `v[[i,j]] = v[[j,i]]` writes into the object v names.     *)
(***************************************************************************)
EXTENDS Integers, Sequences, FiniteSets

\* ------------------------------------------------------------- bounds
MaxRows == 2
MaxCols == 4
MaxCells == 6
MaxVal == 1
\* The largest matrices that are compared with every matrix of their shape.
MaxCompared == 4

\* ----------------------------------------------------------- matrices
\* A 2-D numpy array: shape (R, C) and one entry per index pair, 0-based.
Indices(R, C) == (0 .. R - 1) \X (0 .. C - 1)

MatricesOf(R, C) ==
  { [shape |-> <<R, C>>, e |-> f] : f \in [Indices(R, C) -> 0 .. MaxVal] }

\* np.array(list of rows)
MatrixOf(rs) ==
  [shape |-> <<Len(rs), Len(rs[1])>>,
   e |-> [p \in Indices(Len(rs), Len(rs[1])) |-> rs[p[1] + 1][p[2] + 1]]]

\* The worked example of the notebook's introduction and its documented image.
WorkedExample == MatrixOf(<< <<0, 0, 0>>, <<0, 1, 3>>, <<2, 1, 1>> >>)
DocumentedImage == MatrixOf(<< <<3, 1, 0>>, <<1, 1, 2>>, <<0, 0, 0>> >>)

Shapes ==
  { s \in (0 .. MaxRows) \X (0 .. MaxCols) : s[1] * s[2] <= MaxCells }

\* The matrices the dataset X may hold.
Inputs ==
  UNION { MatricesOf(s[1], s[2]) : s \in Shapes } \cup {WorkedExample}

\* ---------------------------------------------------------- the heap
Objs == {"caller", "a", "b"}
\* A free object id: no array has this shape.
NoObj == [shape |-> <<-1, -1>>, e |-> << >>]

\* M.copy() allocates an object that no name refers to yet.
Fresh(m) == IF m = "a" THEN "b" ELSE "a"

\* Reference counting frees every object but the caller's and the live ones.
Collect(h, live) ==
  [o \in Objs |-> IF o \in live \cup {"caller"} THEN h[o] ELSE NoObj]

\* A swap without the copy of the right-hand side: v[i] = v[j]; v[j] = v[i].
rows_exchanged_clobber(A, i, j) ==
  [A EXCEPT !.e = [p \in DOMAIN A.e |->
      IF p[1] = i \/ p[1] = j THEN A.e[<<j, p[2]>>] ELSE A.e[p]]]

\* v[[i,j]] = v[[j,i]]: the right-hand side is a copy of rows j, i (fancy
\* indexing), assigned to rows i, j in that order.
rows_exchanged(A, i, j) ==
  [A EXCEPT !.e = [p \in DOMAIN A.e |->
      IF p[1] = j THEN A.e[<<i, p[2]>>]
      ELSE IF p[1] = i THEN A.e[<<j, p[2]>>]
      ELSE A.e[p]]]

\* A column swap without the copy of the right-hand side.
cols_exchanged_clobber(A, i, j) ==
  [A EXCEPT !.e = [p \in DOMAIN A.e |->
      IF p[2] = i \/ p[2] = j THEN A.e[<<p[1], j>>] ELSE A.e[p]]]

\* v[:, [i,j]] = v[:, [j,i]]
cols_exchanged(A, i, j) ==
  [A EXCEPT !.e = [p \in DOMAIN A.e |->
      IF p[2] = j THEN A.e[<<p[1], i>>]
      ELSE IF p[2] = i THEN A.e[<<p[1], j>>]
      ELSE A.e[p]]]

\* swap_rows without the copy: v = M, so the rows of M's own object move.
swap_rows_inplace(h, m, i, j) ==
  [ref |-> m, heap |-> [h EXCEPT ![m] = rows_exchanged(h[m], i, j)]]

\* swap_rows(M, i, j): v = M.copy(); v[[i,j]] = v[[j,i]]; return v.
\* m is the reference passed as M; the result is the returned reference and
\* the heap after the call.
swap_rows(h, m, i, j) ==
  LET v == Fresh(m)
      h1 == [h EXCEPT ![v] = h[m]]
  IN  [ref |-> v, heap |-> [h1 EXCEPT ![v] = rows_exchanged(h1[v], i, j)]]

swap_cols(h, m, i, j) ==
  LET v == Fresh(m)
      h1 == [h EXCEPT ![v] = h[m]]
  IN  [ref |-> v, heap |-> [h1 EXCEPT ![v] = cols_exchanged(h1[v], i, j)]]

\* np.reshape(A, -1): the entries in row-major order.
reshape(A) ==
  [k \in 1 .. (A.shape[1] * A.shape[2]) |->
     A.e[<<(k - 1) \div A.shape[2], (k - 1) % A.shape[2]>>]]

Minimum(S) == CHOOSE x \in S : \A y \in S : x <= y

\* greater with the except branch returning True.
greater_on_equal(A, B) ==
  LET a == reshape(A)
      b == reshape(B)
      where == { k \in DOMAIN a : (a[k] > b[k]) # (a[k] < b[k]) }
  IN  IF where = {} THEN TRUE
      ELSE LET idx == Minimum(where) IN a[idx] > b[idx]

\* greater with the final comparison turned round: A[idx] < B[idx].
greater_reversed(A, B) ==
  LET a == reshape(A)
      b == reshape(B)
      where == { k \in DOMAIN a : (a[k] > b[k]) # (a[k] < b[k]) }
  IN  IF where = {} THEN FALSE
      ELSE LET idx == Minimum(where) IN a[idx] < b[idx]

\* greater(A, B): np.where((A>B) != (A<B))[0][0] is the first index where the
\* flattenings differ; an IndexError (no such index) returns False.
greater(A, B) ==
  LET a == reshape(A)
      b == reshape(B)
      where == { k \in DOMAIN a : (a[k] > b[k]) # (a[k] < b[k]) }
  IN  IF where = {} THEN FALSE
      ELSE LET idx == Minimum(where) IN a[idx] > b[idx]

\* The index pairs i < j below n.
PairSet(n) == { p \in (0 .. n - 1) \X (0 .. n - 1) : p[1] < p[2] }

\* itertools.combinations(range(n), 2) from first element i on: the pairs
\* (i, i+1), ..., (i, n-1), then those of i + 1, in lexicographic order.
RECURSIVE PairsFrom(_, _)
PairsFrom(i, n) ==
  IF i >= n - 1 THEN << >>
  ELSE [j \in 1 .. (n - 1 - i) |-> <<i, i + j>>] \o PairsFrom(i + 1, n)

\* combinations(range(n - 1), 2): the last index is never paired.
combinations_short(n) == PairsFrom(0, n - 1)

combinations(n) == PairsFrom(0, n)

\* -------------------------------------------------------------- state
VARIABLES
  call,         \* which matrix of the dataset loop is being processed: 1 or 2
  arg,          \* the entries the caller's matrix held when the call began
  heap,         \* object id -> array
  M,            \* the reference the local name M holds
  rows, cols,   \* the locals rows, cols
  max_found,    \* the local max_found
  pc,           \* "while", "rows", "cols", "done"
  k,            \* position of the running for loop in its combinations
  row_swapped,  \* a row swap was accepted during this call
  col_swapped,  \* a column swap was accepted during this call
  arg1, out1    \* the first call's argument and result (entries)

vars == <<call, arg, heap, M, rows, cols, max_found, pc, k,
          row_swapped, col_swapped, arg1, out1>>

\* An entry that begins with M = M.copy().
entry_copy(A) ==
  [ref |-> "a", heap |-> [o \in Objs |-> IF o = "b" THEN NoObj ELSE A]]

\* def maximise_matrix(M): the parameter M names the caller's object.
entry(A) ==
  [ref |-> "caller",
   heap |-> [o \in Objs |-> IF o = "caller" THEN A ELSE NoObj]]

\* maximise_matrix(mat) is entered.
Enter(n, A, a1, o1) ==
  /\ call' = n
  /\ arg' = A
  /\ heap' = entry(A).heap
  /\ M' = entry(A).ref
  /\ rows' = A.shape[1]
  /\ cols' = A.shape[2]
  /\ max_found' = FALSE
  /\ pc' = "while"
  /\ k' = 1
  /\ row_swapped' = FALSE
  /\ col_swapped' = FALSE
  /\ arg1' = a1
  /\ out1' = o1

Init ==
  \E A \in Inputs :
    /\ call = 1
    /\ arg = A
    /\ heap = entry(A).heap
    /\ M = entry(A).ref
    /\ rows = A.shape[1]
    /\ cols = A.shape[2]
    /\ max_found = FALSE
    /\ pc = "while"
    /\ k = 1
    /\ row_swapped = FALSE
    /\ col_swapped = FALSE
    /\ arg1 = A
    /\ out1 = NoObj

\* A pass without its row loop: only columns are ever exchanged.
EnterPass_columns_only ==
  /\ pc = "while"
  /\ ~max_found
  /\ max_found' = TRUE
  /\ pc' = "cols"
  /\ k' = 1
  /\ UNCHANGED <<call, arg, heap, M, rows, cols, row_swapped, col_swapped,
                 arg1, out1>>

\* while not max_found: max_found = True
EnterPass ==
  /\ pc = "while"
  /\ ~max_found
  /\ max_found' = TRUE
  /\ pc' = "rows"
  /\ k' = 1
  /\ UNCHANGED <<call, arg, heap, M, rows, cols, row_swapped, col_swapped,
                 arg1, out1>>

\* One iteration of `for rowpair in itertools.combinations(range(rows), 2)`.
TryRowPair ==
  /\ pc = "rows"
  /\ k <= Len(combinations(rows))
  /\ \E rowpair \in {combinations(rows)[k]} :
     \E t \in {swap_rows(heap, M, rowpair[1], rowpair[2])} :
       IF greater(t.heap[t.ref], t.heap[M])
       THEN \E s \in {swap_rows(Collect(t.heap, {M}), M, rowpair[1], rowpair[2])} :
              /\ M' = s.ref
              /\ heap' = Collect(s.heap, {s.ref})
              /\ max_found' = FALSE
              /\ row_swapped' = TRUE
       ELSE /\ M' = M
            /\ heap' = Collect(t.heap, {M})
            /\ UNCHANGED <<max_found, row_swapped>>
  /\ k' = k + 1
  /\ UNCHANGED <<call, arg, rows, cols, pc, col_swapped, arg1, out1>>

\* The row loop is exhausted: the column loop starts.
RowsDone ==
  /\ pc = "rows"
  /\ k > Len(combinations(rows))
  /\ pc' = "cols"
  /\ k' = 1
  /\ UNCHANGED <<call, arg, heap, M, rows, cols, max_found, row_swapped,
                 col_swapped, arg1, out1>>

\* A column loop that starts over after every accepted swap.
TryColPair_restart ==
  /\ pc = "cols"
  /\ k <= Len(combinations(cols))
  /\ \E colpair \in {combinations(cols)[k]} :
     \E t \in {swap_cols(heap, M, colpair[1], colpair[2])} :
       IF greater(t.heap[t.ref], t.heap[M])
       THEN \E s \in {swap_cols(Collect(t.heap, {M}), M, colpair[1], colpair[2])} :
              /\ M' = s.ref
              /\ heap' = Collect(s.heap, {s.ref})
              /\ max_found' = FALSE
              /\ col_swapped' = TRUE
              /\ k' = 1
       ELSE /\ M' = M
            /\ heap' = Collect(t.heap, {M})
            /\ k' = k + 1
            /\ UNCHANGED <<max_found, col_swapped>>
  /\ UNCHANGED <<call, arg, rows, cols, pc, row_swapped, arg1, out1>>

\* One iteration of `for colpair in itertools.combinations(range(cols), 2)`.
TryColPair ==
  /\ pc = "cols"
  /\ k <= Len(combinations(cols))
  /\ \E colpair \in {combinations(cols)[k]} :
     \E t \in {swap_cols(heap, M, colpair[1], colpair[2])} :
       IF greater(t.heap[t.ref], t.heap[M])
       THEN \E s \in {swap_cols(Collect(t.heap, {M}), M, colpair[1], colpair[2])} :
              /\ M' = s.ref
              /\ heap' = Collect(s.heap, {s.ref})
              /\ max_found' = FALSE
              /\ col_swapped' = TRUE
       ELSE /\ M' = M
            /\ heap' = Collect(t.heap, {M})
            /\ UNCHANGED <<max_found, col_swapped>>
  /\ k' = k + 1
  /\ UNCHANGED <<call, arg, rows, cols, pc, row_swapped, arg1, out1>>

\* The column loop is exhausted: back to the while test.
ColsDone ==
  /\ pc = "cols"
  /\ k > Len(combinations(cols))
  /\ pc' = "while"
  /\ k' = 1
  /\ UNCHANGED <<call, arg, heap, M, rows, cols, max_found, row_swapped,
                 col_swapped, arg1, out1>>

\* The while test fails: return M.
Return ==
  /\ pc = "while"
  /\ max_found
  /\ pc' = "done"
  /\ out1' = IF call = 1 THEN heap[M] ELSE out1
  /\ UNCHANGED <<call, arg, heap, M, rows, cols, max_found, k, row_swapped,
                 col_swapped, arg1>>

\* The matrices one row swap or one column swap away from A.
SingleSwaps(A) ==
  { rows_exchanged(A, p[1], p[2]) : p \in PairSet(A.shape[1]) }
    \cup { cols_exchanged(A, p[1], p[2]) : p \in PairSet(A.shape[2]) }

\* `for mat in X: X_preprocessed += [maximise_matrix(mat)]`: the next matrix
\* is the previous result again, or the first matrix with two rows or two
\* columns exchanged (the dataset holds permuted copies of its matrices).
NextMatrix ==
  /\ pc = "done"
  /\ call = 1
  /\ \E A \in {out1} \cup SingleSwaps(arg1) : Enter(2, A, arg1, out1)

Next ==
  \/ EnterPass
  \/ TryRowPair
  \/ RowsDone
  \/ TryColPair
  \/ ColsDone
  \/ Return
  \/ NextMatrix

Spec == Init /\ [][Next]_vars

\* A Python interpreter runs the next statement whenever there is one.
FairSpec == Spec /\ WF_vars(Next)

\* ------------------------------------------------- properties: helpers
\* The row-major reading of a matrix, and "lexicographically bigger" as the
\* notebook's introduction defines it: the first entry where the two readings
\* disagree is bigger in A.
Reading(A) ==
  [n \in 1 .. (A.shape[1] * A.shape[2]) |->
     A.e[<<(n - 1) \div A.shape[2], (n - 1) % A.shape[2]>>]]

LexGreater(A, B) ==
  \E n \in DOMAIN Reading(A) :
    /\ Reading(A)[n] > Reading(B)[n]
    /\ \A m \in 1 .. (n - 1) : Reading(A)[m] = Reading(B)[m]

Perms(S) == { f \in [S -> S] : \A x, y \in S : f[x] = f[y] => x = y }

\* B is A with its rows permuted and its columns permuted.
IsRearrangement(A, B) ==
  /\ B.shape = A.shape
  /\ \E p \in Perms(0 .. A.shape[1] - 1), q \in Perms(0 .. A.shape[2] - 1) :
       \A x \in DOMAIN A.e : B.e[x] = A.e[<<p[x[1]], q[x[2]]>>]

SameMultiset(A, B) ==
  \A v \in { A.e[x] : x \in DOMAIN A.e } \cup { B.e[x] : x \in DOMAIN B.e } :
    Cardinality({ x \in DOMAIN A.e : A.e[x] = v })
      = Cardinality({ x \in DOMAIN B.e : B.e[x] = v })

Degenerate(A) == A.shape[1] = 0 \/ A.shape[2] = 0

Swapped == row_swapped \/ col_swapped

\* The local maximum maximise_matrix reaches from the worked example.
LocalImage == MatrixOf(<< <<2, 1, 1>>, <<0, 3, 1>>, <<0, 0, 0>> >>)

\* -------------------------------------------------------------- claims
\* C1 (as stated): maximise_matrix applied to [[0,0,0],[0,1,3],[2,1,1]]
\* returns [[3,1,0],[1,1,2],[0,0,0]], having accepted at least one row swap
\* and at least one column swap.
C1_DocumentedResult ==
  (pc = "done" /\ arg = WorkedExample) =>
    (heap[M] = DocumentedImage /\ row_swapped /\ col_swapped)

\* C1 (amended): maximise_matrix applied to [[0,0,0],[0,1,3],[2,1,1]] returns
\* [[2,1,1],[0,3,1],[0,0,0]], having accepted at least one row swap and at
\* least one column swap.
C1_LocalResult ==
  (pc = "done" /\ arg = WorkedExample) =>
    (heap[M] = LocalImage /\ row_swapped /\ col_swapped)

C1_Witness == pc = "done" /\ arg = WorkedExample /\ call = 1

\* C2: the returned matrix is a fixed point: no swap of two rows and no swap
\* of two columns is lexicographically greater than it, and maximise_matrix
\* applied to its own result returns that result entry for entry.
C2_FixedPoint ==
  pc = "done" =>
    /\ \A p \in PairSet(heap[M].shape[1]) :
         ~LexGreater(rows_exchanged(heap[M], p[1], p[2]), heap[M])
    /\ \A p \in PairSet(heap[M].shape[2]) :
         ~LexGreater(cols_exchanged(heap[M], p[1], p[2]), heap[M])
    /\ (call = 2 /\ arg = out1) => heap[M] = out1

C2_Witness ==
  /\ pc = "done" /\ call = 2 /\ arg = out1 /\ out1 # arg1
  /\ rows >= 2 /\ cols >= 2

\* C3: two matrices that are row/column permutations of one another get
\* different results, and the result is not always the lexicographic maximum
\* over the permutations: the worked example and the worked example with
\* columns 0 and 2 exchanged reach different matrices, the second greater
\* than the first, both rearrangements of the worked example.
C3_NotCanonical ==
  (pc = "done" /\ call = 2 /\ arg1 = WorkedExample
     /\ arg = cols_exchanged(WorkedExample, 0, 2)) =>
    /\ IsRearrangement(arg1, arg)
    /\ IsRearrangement(arg1, out1)
    /\ IsRearrangement(arg1, heap[M])
    /\ heap[M] # out1
    /\ LexGreater(heap[M], out1)

C3_Witness ==
  /\ pc = "done" /\ call = 2 /\ arg1 = WorkedExample
  /\ arg = cols_exchanged(WorkedExample, 0, 2)

\* C4: maximise_matrix terminates: every call that has begun returns.
C4_Terminates == (pc # "done") ~> (pc = "done")

C4_Witness ==
  pc = "done" /\ row_swapped /\ col_swapped /\ arg.shape = <<2, 3>>

\* C5: the returned matrix is the input with its rows permuted and its
\* columns permuted: same shape, same multiset of entries.
C5_Rearrangement ==
  pc = "done" =>
    /\ heap[M].shape = arg.shape
    /\ IsRearrangement(arg, heap[M])
    /\ SameMultiset(arg, heap[M])

C5_Witness == pc = "done" /\ row_swapped /\ col_swapped /\ heap[M] # arg

\* C6: during a call the current matrix never decreases lexicographically:
\* an accepted swap makes it strictly greater, a rejected swap leaves it as
\* it is, and the returned matrix is not smaller than the input.
C6_NonDecreasing ==
  /\ [][call' = call =>
          /\ M' # M => LexGreater(heap'[M'], heap[M])
          /\ M' = M => heap'[M'] = heap[M]]_vars
  /\ [](pc = "done" => ~LexGreater(arg, heap[M]))

C6_Witness == pc = "done" /\ LexGreater(heap[M], arg) /\ call = 1

\* C7: the caller's matrix object holds, at every step of a call, the entries
\* it held when the call began; and swap_rows and swap_cols, called on the
\* current matrix with any pair, leave the object they are passed (and the
\* caller's) as it was and return another object.
C7_CallerUnmodified ==
  /\ heap["caller"] = arg
  /\ \A p \in PairSet(rows) :
       \E t \in {swap_rows(heap, M, p[1], p[2])} :
         t.ref # M /\ t.heap[M] = heap[M] /\ t.heap["caller"] = arg
  /\ \A p \in PairSet(cols) :
       \E t \in {swap_cols(heap, M, p[1], p[2])} :
         t.ref # M /\ t.heap[M] = heap[M] /\ t.heap["caller"] = arg

C7_Witness ==
  pc \in {"rows", "cols"} /\ M # "caller" /\ heap[M] # heap["caller"]

\* C8 (as stated): the returned matrix is always a new object, distinct from
\* the caller's.
C8_AlwaysCopy == pc = "done" => M # "caller"

\* C8 (amended): the returned matrix is a new object exactly when a swap was
\* accepted; when none was, the caller's own object is returned.
C8_CopyIffSwapped == pc = "done" => ((M # "caller") <=> Swapped)

C8_Witness ==
  pc = "done" /\ M = "caller" /\ ~Swapped /\ rows >= 2 /\ cols >= 2

\* C9 (as stated): a call with zero rows or zero columns returns no result.
C9_FailsFast == Degenerate(arg) => pc # "done"

\* C9 (amended): a call with zero rows or zero columns raises nothing: no
\* swap is accepted, so that the first pass is the last (max_found stays
\* True), and the caller's own object is returned unchanged.
C9_DegenerateReturned ==
  Degenerate(arg) =>
    /\ ~Swapped
    /\ M = "caller"
    /\ heap[M] = arg
    /\ pc \in {"while", "rows", "cols", "done"}
    /\ pc \in {"rows", "cols", "done"} => max_found

C9_Witness == Degenerate(arg) /\ pc = "done" /\ cols >= 2

\* The dataset matrices of the shape of A.
SameShape(A) == { B \in Inputs : B.shape = A.shape }

\* A call has just been entered: the current matrix is the dataset's.
AtEntry == pc = "while" /\ call = 1 /\ ~max_found /\ ~Swapped

\* The first position where two readings differ: empty when they are equal.
FirstDifference(a, b) ==
  { n \in DOMAIN a : a[n] # b[n] /\ \A m \in 1 .. (n - 1) : a[m] = b[m] }

\* The answer g that greater gave for A and B is the one C11 describes.
AsFirstDifference(g, A, B) ==
  \E a \in {Reading(A)}, b \in {Reading(B)} :
    \E d \in {FirstDifference(a, b)} :
      /\ g <=> \E n \in d : a[n] > b[n]
      /\ (\E n \in d : b[n] > a[n]) => ~g
      /\ A = B => (d = {} /\ ~g)

\* C11: for equally-shaped A and B, greater(A, B) is True exactly when A's
\* entry exceeds B's at the first position of the row-major readings where
\* they differ; it is False when B's entry is the larger one there and when
\* A and B are identical.  Checked for every dataset matrix of at most
\* MaxCompared entries against every matrix of its shape, and for every
\* candidate at both call sites of maximise_matrix.
C11_FirstDifference ==
  /\ (AtEntry /\ rows * cols <= MaxCompared) =>
       \A B \in SameShape(heap[M]) :
         AsFirstDifference(greater(heap[M], B), heap[M], B)
  /\ (pc = "rows" /\ k <= Len(combinations(rows))) =>
       \E c \in {rows_exchanged(heap[M], combinations(rows)[k][1],
                                combinations(rows)[k][2])} :
         AsFirstDifference(greater(c, heap[M]), c, heap[M])
  /\ (pc = "cols" /\ k <= Len(combinations(cols))) =>
       \E c \in {cols_exchanged(heap[M], combinations(cols)[k][1],
                                combinations(cols)[k][2])} :
         AsFirstDifference(greater(c, heap[M]), c, heap[M])

\* A column pair is about to be tried after an accepted column swap, and its
\* candidate is smaller than the current matrix.
C11_Witness ==
  /\ pc = "cols" /\ col_swapped /\ k <= Len(combinations(cols))
  /\ LexGreater(heap[M], cols_exchanged(heap[M], combinations(cols)[k][1],
                                        combinations(cols)[k][2]))

\* R is A with rows i and j exchanged, as C12 words it.
RowsSwapped(A, R, i, j) ==
  /\ R.shape = A.shape
  /\ \A c \in 0 .. A.shape[2] - 1 :
       /\ R.e[<<i, c>>] = A.e[<<j, c>>]
       /\ R.e[<<j, c>>] = A.e[<<i, c>>]
       /\ \A r \in (0 .. A.shape[1] - 1) \ {i, j} : R.e[<<r, c>>] = A.e[<<r, c>>]
  /\ i = j => R = A

ColsSwapped(A, R, i, j) ==
  /\ R.shape = A.shape
  /\ \A r \in 0 .. A.shape[1] - 1 :
       /\ R.e[<<r, i>>] = A.e[<<r, j>>]
       /\ R.e[<<r, j>>] = A.e[<<r, i>>]
       /\ \A c \in (0 .. A.shape[2] - 1) \ {i, j} : R.e[<<r, c>>] = A.e[<<r, c>>]
  /\ i = j => R = A

\* C12: for in-range i and j, in either order or equal, swap_rows(M, i, j)
\* returns a fresh object (one that held no array, M's own object left as it
\* was) whose row i is M's row j, whose row j is M's row i and whose other
\* rows are M's; swap_cols likewise for columns; with i = j the result equals
\* M entry for entry.  Checked on the current matrix at every while test.
C12_SwapContract ==
  pc = "while" =>
    /\ \A i, j \in 0 .. rows - 1 :
         \E t \in {swap_rows(heap, M, i, j)} :
           /\ t.ref # M /\ heap[t.ref] = NoObj /\ t.heap[M] = heap[M]
           /\ RowsSwapped(heap[M], t.heap[t.ref], i, j)
    /\ \A i, j \in 0 .. cols - 1 :
         \E t \in {swap_cols(heap, M, i, j)} :
           /\ t.ref # M /\ heap[t.ref] = NoObj /\ t.heap[M] = heap[M]
           /\ ColsSwapped(heap[M], t.heap[t.ref], i, j)

\* A while test after accepted swaps, on a matrix that a row swap and a
\* column swap both change.
C12_Witness ==
  /\ pc = "while" /\ row_swapped /\ col_swapped /\ cols >= 3
  /\ rows_exchanged(heap[M], 1, 0) # heap[M]
  /\ cols_exchanged(heap[M], 2, 0) # heap[M]

\* Ascending pair order: (0,1), (0,2), ..., (n-2,n-1).
Before(p, q) == p[1] < q[1] \/ (p[1] = q[1] /\ p[2] < q[2])

NPairs(n) == Cardinality(PairSet(n))

\* The kk-th pair: the one that has kk - 1 pairs before it.
KthPair(n, kk) ==
  CHOOSE p \in PairSet(n) :
    Cardinality({ q \in PairSet(n) : Before(q, p) }) = kk - 1

\* The step tries candidate c against the current matrix: it becomes the
\* current matrix when it is greater, and nothing changes when it is not.
Tried(c) ==
  IF LexGreater(c, heap[M])
  THEN M' # M /\ heap'[M'] = c /\ ~max_found'
  ELSE M' = M /\ heap'[M'] = heap[M] /\ max_found' = max_found

PassStep ==
  /\ (pc = "while" /\ pc' # "while") =>
       \/ pc' = "done"
       \/ pc' = "rows" /\ k' = 1 /\ max_found' /\ heap'[M'] = heap[M]
  /\ pc = "rows" =>
       IF k <= NPairs(rows)
       THEN /\ pc' = "rows" /\ k' = k + 1
            /\ Tried(rows_exchanged(heap[M], KthPair(rows, k)[1],
                                    KthPair(rows, k)[2]))
       ELSE /\ k = NPairs(rows) + 1
            /\ pc' = "cols" /\ k' = 1
            /\ heap'[M'] = heap[M] /\ max_found' = max_found
  /\ pc = "cols" =>
       IF k <= NPairs(cols)
       THEN /\ pc' = "cols" /\ k' = k + 1
            /\ Tried(cols_exchanged(heap[M], KthPair(cols, k)[1],
                                    KthPair(cols, k)[2]))
       ELSE /\ k = NPairs(cols) + 1
            /\ pc' = "while" /\ k' = 1
            /\ heap'[M'] = heap[M] /\ max_found' = max_found

\* C13: a pass begins with the first row pair; the k-th step of the row loop
\* tries the k-th row pair in ascending order against the current matrix
\* (the one left by the swaps accepted so far) and moves on to pair k + 1
\* whether it accepted or not; the column loop begins only when every row
\* pair has been tried, and proceeds in the same way; the pass ends only
\* when every column pair has been tried.
C13_PassOrder == [][PassStep]_vars

\* In the column loop, a swap was accepted earlier in this call, pairs remain
\* to be tried, and the next candidate is judged otherwise against the
\* current matrix than it would have been against the call's argument.
C13_Witness ==
  /\ pc = "cols" /\ col_swapped /\ ~max_found
  /\ 1 < k /\ k <= NPairs(cols)
  /\ LexGreater(cols_exchanged(arg, KthPair(cols, k)[1], KthPair(cols, k)[2]),
                arg)
       # LexGreater(cols_exchanged(heap[M], KthPair(cols, k)[1],
                                   KthPair(cols, k)[2]), heap[M])

\* The array swap_rows (swap_cols) returns to a caller that passes array A.
RowSwap(A, i, j) ==
  LET t == swap_rows(entry(A).heap, entry(A).ref, i, j) IN t.heap[t.ref]

ColSwap(A, i, j) ==
  LET t == swap_cols(entry(A).heap, entry(A).ref, i, j) IN t.heap[t.ref]

\* The two orders of two swaps give the same matrix.
RowsCommute(A, i, j, m, n) ==
  RowSwap(RowSwap(A, i, j), m, n) = RowSwap(RowSwap(A, m, n), i, j)

ColsCommute(A, i, j, m, n) ==
  ColSwap(ColSwap(A, i, j), m, n) = ColSwap(ColSwap(A, m, n), i, j)

CrossCommute(A, i, j, m, n) ==
  ColSwap(RowSwap(A, i, j), m, n) = RowSwap(ColSwap(A, m, n), i, j)

\* The pairs {i, j} and {m, n} are the same pair or share no index.
Apart(i, j, m, n) == {i, j} = {m, n} \/ {i, j} \cap {m, n} = {}

\* The first call has just been entered or has returned.
AtEnds == AtEntry \/ (call = 1 /\ pc = "done")

\* C14 (as stated, its "for every" half): for every matrix and in-range
\* indices, two row swaps (i,j) and (m,n) give the same matrix in either
\* order, and likewise two column swaps.
C14_SameAxisCommute ==
  AtEnds =>
    /\ \A i, j, m, n \in 0 .. rows - 1 : RowsCommute(heap[M], i, j, m, n)
    /\ \A i, j, m, n \in 0 .. cols - 1 : ColsCommute(heap[M], i, j, m, n)

\* C14 (amended): it is a row swap and a column swap that commute, for every
\* matrix and in-range indices; two swaps on one axis commute when their
\* index pairs are the same pair or share no index, and need not otherwise.
C14_CrossAxisCommute ==
  AtEnds =>
    /\ \A i, j \in 0 .. rows - 1 : \A m, n \in 0 .. cols - 1 :
         CrossCommute(heap[M], i, j, m, n)
    /\ \A i, j, m, n \in 0 .. rows - 1 :
         Apart(i, j, m, n) => RowsCommute(heap[M], i, j, m, n)
    /\ \A i, j, m, n \in 0 .. cols - 1 :
         Apart(i, j, m, n) => ColsCommute(heap[M], i, j, m, n)

\* After accepted swaps, a matrix that a row swap changes, that a column swap changes further, and
\* on which the column swaps (0,1) and (1,2) give different matrices in
\* their two orders.
C14_Witness ==
  /\ AtEnds /\ row_swapped /\ col_swapped /\ rows >= 2 /\ cols >= 3
  /\ RowSwap(heap[M], 0, 1) # heap[M]
  /\ ColSwap(RowSwap(heap[M], 0, 1), 0, 1) # RowSwap(heap[M], 0, 1)
  /\ ~ColsCommute(heap[M], 0, 1, 1, 2)

====
